---- MODULE Spec2Model ----
(***************************************************************************)
(* port-guardian: the liveness tracker (PortChecker), the cycle runner     *)
(* (PortGuardian.run_check_task) and the webhook notifier                  *)
(* (WebhookNotifier), as a state machine.                                  *)
(*                                                                         *)
(* Python's None is modelled as the empty sequence and a present value v   *)
(* as <<v>>.  The dict previous_states is a function whose DOMAIN is the   *)
(* set of keys it holds.                                                   *)
(***************************************************************************)
EXTENDS Integers, Sequences, FiniteSets, TLC

VARIABLES
    servers,          \* ConfigLoader.config['servers'], fixed after loading
    retry_count,      \* WebhookNotifier.retry_count
    method,           \* WebhookNotifier.method
    url,              \* WebhookNotifier.url, as the sequence of its parts
    retry_interval,   \* WebhookNotifier.retry_interval, in seconds
    previous_states,  \* PortChecker.previous_states
    pc,               \* where the cycle runner is
    first_cycle,      \* TRUE until the cycle run by start() has completed
    idx,              \* loop position: server in check_all_servers, result in run_check_task
    results,          \* the list built by check_all_servers, read by run_check_task
    notified,         \* per result of the cycle: calls of notify_port_status_change
    npc,              \* where the notifier is
    check_result,     \* argument of the notify_port_status_change call in progress
    attempt,          \* loop variable of send_notification
    resp_log,         \* per _send_request call of this delivery: did the destination answer ok
    sleeps,           \* time.sleep calls of this delivery
    http_calls,       \* requests.get/post calls of this delivery
    ret,              \* return value of the notifier call, once npc = "returned"
    payload,          \* the message handed to send_notification
    slept,            \* seconds spent in time.sleep by this delivery
    calls,            \* the latest (at most two) direct calls of check_server
    undelivered,      \* history: transitions whose delivery failed, with their reading
    main_at,          \* main thread: index of the statement of start() it is at
    frames,           \* per thread: the run_check_task frame it is in, if any
    scheduled,        \* schedule.every(...).do(task) has registered the job
    due,              \* the job's interval has elapsed
    running,          \* TaskScheduler.running
    scheduler_thread, \* TaskScheduler.scheduler_thread: "none", "alive" or "finished"
    sched_at,         \* scheduler thread: where it is in run_scheduler
    handler,          \* where signal_handler is, once a signal has arrived
    webhook_config    \* the retry settings of the configuration handed to WebhookNotifier

vars == <<servers, retry_count, method, url, retry_interval, previous_states, pc,
          first_cycle, idx, results, notified, npc, check_result, attempt, resp_log,
          sleeps, http_calls, ret, payload, slept, calls, undelivered,
          main_at, frames, scheduled, due, running, scheduler_thread, sched_at, handler,
          webhook_config>>

config_vars == <<servers, retry_count, method, url, retry_interval, webhook_config>>
runner_vars == <<previous_states, pc, first_cycle, idx, results, notified>>
notifier_vars == <<npc, check_result, attempt, resp_log, sleeps, http_calls, ret,
                   payload, slept>>
\* what the cycle runner and the notifier never touch
outside_vars == <<calls>>
\* history kept for stating properties: the program has no such field
history_vars == <<undelivered>>
thread_vars == <<main_at, frames, scheduled, due, running, scheduler_thread, sched_at,
                 handler>>

(***************************************************************************)
(* Bounds of the model.                                                    *)
(***************************************************************************)
MaxServers == 2
MaxRetry == 2

(***************************************************************************)
(* Configuration.                                                          *)
(***************************************************************************)
\* A host string the socket layer rejects with TypeError (an embedded null
\* character, a name that cannot be encoded): not a socket.error.
BadHost == "bad\\x00host"

FaultHosts == {BadHost}

ServerPool ==
    { [name |-> "web",     host |-> "h1",    port |-> 80, protocol |-> "tcp"],
      [name |-> "web-alt", host |-> "h1",    port |-> 80, protocol |-> "TCP"],
      [name |-> "dns",     host |-> "h1",    port |-> 53, protocol |-> "udp"],
      [name |-> "bad",     host |-> BadHost, port |-> 80, protocol |-> "tcp"] }

\* str.lower() on the protocol strings of the model
Lower(s) ==
    CASE s = "TCP" -> "tcp"
      [] s = "UDP" -> "udp"
      [] OTHER -> s

\* validate_config: servers is a non-empty list, every protocol is tcp or udp
\* (case-insensitive), every port is in 1..65535; duplicates are not rejected.
ValidServers(list) ==
    /\ Len(list) >= 1
    /\ \A i \in 1..Len(list) :
          /\ list[i].port >= 1 /\ list[i].port <= 65535
          /\ Lower(list[i].protocol) \in {"tcp", "udp"}

ServerLists ==
    { list \in UNION { [1..n -> ServerPool] : n \in 1..MaxServers } : ValidServers(list) }

Methods == {"GET", "POST", "PUT"}

RetryCounts == 0..MaxRetry

\* retry_interval after max(1, int(...)): the notifier alone is explored with
\* both, the whole cycle with the first
RetryIntervals == {1, 3}

CycleRetryIntervals == {1}

\* destination URLs, cut into parts so that "x in self.url" is a search for a part
Urls ==
    { <<"https://open.", "feishu.cn", "/hook/1">>,
      <<"https://open.", "larksuite.com", "/hook/1">>,
      <<"https://oapi.", "dingtalk.com", "/robot/send">>,
      <<"https://hooks.", "example.com", "/notify">>,
      <<"https://relay.example.com/", "dingtalk.com", "/to/", "feishu.cn">> }

CycleUrls == { <<"https://hooks.", "example.com", "/notify">> }

\* config.get('msg_type', 'text')
MsgType == "text"

(***************************************************************************)
(* Probe: check_tcp_port, check_udp_port.                                  *)
(***************************************************************************)
\* elapsed wall time of a probe, in microseconds
ElapsedTimes == {12346}

\* round(response_time * 1000, 2) if response_time else None, in 1/100 ms
RoundMs(response_time) ==
    IF response_time = <<>> \/ response_time = <<0>>
    THEN <<>>
    ELSE <<(response_time[1] + 5) \div 10>>

\* what the socket layer can do to one probe of this server
\* (no probe at all for a protocol that is neither tcp nor udp)
ProbeOutcomes(server) ==
    IF Lower(server.protocol) \notin {"tcp", "udp"} THEN {"no_probe"}
    ELSE IF server.host \in FaultHosts THEN {"fault"}
    ELSE IF Lower(server.protocol) = "tcp" THEN {"connected", "refused", "oserror"}
    ELSE {"reply", "timeout", "send_error", "recv_error"}

check_tcp_port(outcome, elapsed) ==
    CASE outcome = "connected" -> [is_alive |-> TRUE,  response_time |-> <<elapsed>>]
      [] outcome = "refused"   -> [is_alive |-> FALSE, response_time |-> <<elapsed>>]
      [] OTHER                 -> [is_alive |-> FALSE, response_time |-> <<>>]

check_udp_port_strict(outcome, elapsed) ==
    CASE outcome = "reply"   -> [is_alive |-> TRUE,  response_time |-> <<elapsed>>]
      [] OTHER               -> [is_alive |-> FALSE, response_time |-> <<>>]

\* sendto raising socket.error, or recvfrom raising a socket.error other than
\* socket.timeout, reaches the outer except clause
check_udp_port(outcome, elapsed) ==
    CASE outcome = "reply"   -> [is_alive |-> TRUE,  response_time |-> <<elapsed>>]
      [] outcome = "timeout" -> [is_alive |-> TRUE,  response_time |-> <<elapsed>>]
      [] OTHER               -> [is_alive |-> FALSE, response_time |-> <<>>]

(***************************************************************************)
(* Liveness tracker: check_server.                                         *)
(***************************************************************************)
ServerKeyHostOnly(server) == <<server.host>>

ServerKeyWithName(server) ==
    <<server.host, server.port, Lower(server.protocol), server.name>>

\* server_key = f"{host}:{port}:{protocol}" with the protocol lower-cased
ServerKey(server) == <<server.host, server.port, Lower(server.protocol)>>

StatusChangedNoBaseline(states, server_key, is_alive) ==
    IF server_key \in DOMAIN states THEN states[server_key] # is_alive ELSE TRUE

\* a tracker that reports a change on every reading of a dead endpoint
StatusChangedWhileDown(states, server_key, is_alive) ==
    server_key \in DOMAIN states /\ (states[server_key] # is_alive \/ ~is_alive)

\* previous_state is not None and previous_state != is_alive
StatusChanged(states, server_key, is_alive) ==
    server_key \in DOMAIN states /\ states[server_key] # is_alive

UpdateStatesIfAbsent(states, server_key, is_alive) ==
    [k \in DOMAIN states \cup {server_key} |->
        IF k \in DOMAIN states THEN states[k] ELSE is_alive]

\* a memory that forgets every other key on each write
UpdateStatesOnlyKey(states, server_key, is_alive) ==
    [k \in {server_key} |-> is_alive]

\* self.previous_states[server_key] = is_alive
UpdateStates(states, server_key, is_alive) ==
    [k \in DOMAIN states \cup {server_key} |->
        IF k = server_key THEN is_alive ELSE states[k]]

\* the dict check_server returns for a supported protocol
CheckServerResult(states, server, probe) ==
    [server         |-> server,
     is_alive       |-> probe.is_alive,
     response_time  |-> RoundMs(probe.response_time),
     status_changed |-> StatusChanged(states, ServerKey(server), probe.is_alive),
     checked_at     |-> "now"]

ProbeResult(server, outcome, elapsed) ==
    IF Lower(server.protocol) = "tcp"
    THEN check_tcp_port(outcome, elapsed)
    ELSE check_udp_port(outcome, elapsed)

(***************************************************************************)
(* Notifier: notify_port_status_change, send_notification, _send_request.  *)
(***************************************************************************)
\* substring in self.url
Contains(u, part) == \E i \in 1..Len(u) : u[i] = part

IsFeishuOnly(u) == Contains(u, "feishu.cn")

\* "feishu.cn" in self.url or "larksuite.com" in self.url
IsFeishu(u) == Contains(u, "feishu.cn") \/ Contains(u, "larksuite.com")

\* "dingtalk.com" in self.url
IsDingtalk(u) == Contains(u, "dingtalk.com")

\* dict.get(key, default)
Get(cr, key, default) == IF key \in DOMAIN cr THEN cr[key] ELSE default

\* the text of the provider messages: the values the f-string puts in, in order
MessageText(cr) ==
    <<IF cr.is_alive THEN "check-mark" ELSE "cross-mark",
      IF cr.is_alive THEN "recovered" ELSE "abnormal",
      cr.server.name, cr.server.host, cr.server.port, cr.server.protocol,
      IF cr.is_alive THEN "UP" ELSE "DOWN",
      Get(cr, "response_time", <<"unknown">>)>>

format_port_status_message(u, cr) ==
    IF IsFeishu(u)
    THEN [msg_type |-> MsgType,
          content  |-> [text |-> Append(MessageText(cr), Get(cr, "checked_at", "strftime"))]]
    ELSE IF IsDingtalk(u)
    THEN [msgtype |-> "text",
          text    |-> [content |-> MessageText(cr)]]
    ELSE [msg_type         |-> MsgType,
          title            |-> <<IF cr.is_alive THEN "check-mark" ELSE "cross-mark",
                                 IF cr.is_alive THEN "recovered" ELSE "abnormal">>,
          server_name      |-> cr.server.name,
          host             |-> cr.server.host,
          port             |-> cr.server.port,
          protocol         |-> cr.server.protocol,
          status           |-> IF cr.is_alive THEN "UP" ELSE "DOWN",
          response_time_ms |-> Get(cr, "response_time", <<"unknown">>),
          checked_at       |-> Get(cr, "checked_at", "strftime"),
          timestamp        |-> "now"]

NeverSkip(cr) == FALSE

\* not check_result.get('status_changed', False)
SkipNotification(cr) ==
    ~(IF "status_changed" \in DOMAIN cr THEN cr.status_changed ELSE FALSE)

RetryAlways(rc) == FALSE

\* if self.retry_count == 0
NoRetry(rc) == rc = 0

\* for attempt in range(1, self.retry_count + 1): the last value of attempt
LastAttempt(rc) == rc

KeepTrying(ok) == FALSE

\* if self._send_request(payload): return True
ReturnsOnSuccess(ok) == ok

ShouldSleepAlways(att, rc) == TRUE

\* if attempt < self.retry_count: time.sleep(...)
ShouldSleep(att, rc) == att < rc

\* what one _send_request call can meet: the method branch makes no request
\* for a method other than POST and GET
Responses(m) ==
    IF m \in {"POST", "GET"}
    THEN {"ok", "http_error", "conn_error", "timeout", "other"}
    ELSE {"no_request"}

HandledNamedOnly(resp) == resp \in {"ok", "no_request", "http_error", "conn_error", "timeout"}

\* the except clauses of _send_request: HTTPError, ConnectionError, Timeout, Exception
Handled(resp) == resp \in {"ok", "no_request", "http_error", "conn_error", "timeout", "other"}

\* _send_request returns True only after raise_for_status() passed
RequestResult(resp) == resp = "ok"

\* if result['status_changed'] in run_check_task
ShouldNotify(result) == result.status_changed

(***************************************************************************)
(* Initial states.                                                         *)
(***************************************************************************)
\* TaskScheduler.__init__, and the threads before start() is called
ThreadInit ==
    /\ main_at = 1
    /\ frames = [t \in {"main", "sched"} |-> <<>>]
    /\ scheduled = FALSE
    /\ due = FALSE
    /\ running = FALSE
    /\ scheduler_thread = "none"
    /\ sched_at = "not_started"
    /\ handler = "none"

NotifierInit ==
    /\ npc = "idle"
    /\ check_result = <<>>
    /\ attempt = 0
    /\ resp_log = <<>>
    /\ sleeps = 0
    /\ http_calls = 0
    /\ ret = FALSE
    /\ payload = <<>>
    /\ slept = 0

Init ==
    /\ servers \in ServerLists
    /\ retry_count \in RetryCounts
    /\ method \in Methods
    /\ url \in CycleUrls
    /\ retry_interval \in CycleRetryIntervals
    /\ webhook_config = [retry_count |-> retry_count, retry_interval |-> retry_interval]
    /\ previous_states = <<>>
    /\ pc = "start"
    /\ first_cycle = TRUE
    /\ idx = 0
    /\ results = <<>>
    /\ notified = <<>>
    /\ calls = <<>>
    /\ undelivered = {}
    /\ ThreadInit
    /\ NotifierInit

(***************************************************************************)
(* Cycle runner.                                                           *)
(***************************************************************************)
BeginCycle ==
    /\ pc' = "checking"
    /\ idx' = 1
    /\ results' = <<>>
    /\ notified' = <<>>
    /\ UNCHANGED <<previous_states, first_cycle>>
    /\ UNCHANGED config_vars
    /\ UNCHANGED thread_vars
    /\ UNCHANGED history_vars
    /\ UNCHANGED outside_vars
    /\ UNCHANGED notifier_vars

\* PortGuardian.start: the cycle run before the scheduler is started
Start ==
    /\ pc = "start"
    /\ BeginCycle

\* the scheduled job: schedule.run_pending() calls run_check_task
SchedulerTick ==
    /\ pc = "waiting"
    /\ BeginCycle

\* one iteration of the loop of check_all_servers: check_server and append.
\* An exception that check_server does not catch leaves check_all_servers and
\* run_check_task: the list under construction is lost with the frame.
CheckServer ==
    /\ pc = "checking"
    /\ idx <= Len(servers)
    /\ \E outcome \in ProbeOutcomes(servers[idx]), elapsed \in ElapsedTimes :
          IF outcome = "fault"
          THEN /\ pc' = "aborted"
               /\ results' = <<>>
               /\ UNCHANGED <<previous_states, idx, notified>>
          ELSE LET server == servers[idx]
                   probe == ProbeResult(server, outcome, elapsed)
                   result == CheckServerResult(previous_states, server, probe)
               IN /\ previous_states' =
                        UpdateStates(previous_states, ServerKey(server), probe.is_alive)
                  /\ results' = Append(results, result)
                  /\ notified' = Append(notified, 0)
                  /\ IF idx = Len(servers)
                     THEN pc' = "notifying" /\ idx' = 1
                     ELSE pc' = "checking" /\ idx' = idx + 1
    /\ UNCHANGED first_cycle
    /\ UNCHANGED config_vars
    /\ UNCHANGED thread_vars
    /\ UNCHANGED history_vars
    /\ UNCHANGED outside_vars
    /\ UNCHANGED notifier_vars

\* notify_port_status_change up to the first attempt of send_notification
EnterNotify(cr) ==
    /\ check_result' = <<cr>>
    /\ resp_log' = <<>>
    /\ sleeps' = 0
    /\ slept' = 0
    /\ http_calls' = 0
    /\ payload' = IF SkipNotification(cr)
                  THEN <<>>
                  ELSE <<format_port_status_message(url, cr)>>
    /\ IF SkipNotification(cr)
       THEN npc' = "returned" /\ ret' = TRUE /\ attempt' = 0
       ELSE IF NoRetry(retry_count)
       THEN npc' = "send" /\ ret' = FALSE /\ attempt' = 0
       ELSE IF 1 <= LastAttempt(retry_count)
       THEN npc' = "send" /\ ret' = FALSE /\ attempt' = 1
       ELSE npc' = "returned" /\ ret' = FALSE /\ attempt' = 0

\* the frame of notify_port_status_change is gone: its locals with it
NotifierReset ==
    /\ npc' = "idle"
    /\ check_result' = <<>>
    /\ attempt' = 0
    /\ resp_log' = <<>>
    /\ sleeps' = 0
    /\ http_calls' = 0
    /\ ret' = FALSE
    /\ payload' = <<>>
    /\ slept' = 0

\* run_check_task: a result whose status_changed is false is passed over
SkipResult ==
    /\ pc = "notifying"
    /\ npc = "idle"
    /\ idx <= Len(results)
    /\ ~ShouldNotify(results[idx])
    /\ idx' = idx + 1
    /\ UNCHANGED <<previous_states, pc, first_cycle, results, notified>>
    /\ UNCHANGED config_vars
    /\ UNCHANGED thread_vars
    /\ UNCHANGED history_vars
    /\ UNCHANGED outside_vars
    /\ UNCHANGED notifier_vars

\* run_check_task: a result whose status_changed is true goes to the notifier
NotifyResult ==
    /\ pc = "notifying"
    /\ npc = "idle"
    /\ idx <= Len(results)
    /\ ShouldNotify(results[idx])
    /\ notified' = [notified EXCEPT ![idx] = @ + 1]
    /\ EnterNotify(results[idx])
    /\ UNCHANGED <<previous_states, pc, first_cycle, idx, results>>
    /\ UNCHANGED config_vars
    /\ UNCHANGED thread_vars
    /\ UNCHANGED history_vars
    /\ UNCHANGED outside_vars

\* the notifier has returned to run_check_task, which goes to the next result
NotifyReturn ==
    /\ pc = "notifying"
    /\ npc = "returned"
    /\ idx' = idx + 1
    /\ NotifierReset
    /\ undelivered' = LET cr == check_result[1]
                          key == ServerKey(cr.server)
                          others == {u \in undelivered : u.old \/ u.key # key}
                      IN IF ~ret /\ previous_states[key] = cr.is_alive
                         THEN others \cup {[key |-> key, reading |-> cr.is_alive, old |-> FALSE]}
                         ELSE others
    /\ UNCHANGED <<previous_states, pc, first_cycle, results, notified>>
    /\ UNCHANGED config_vars
    /\ UNCHANGED thread_vars
    /\ UNCHANGED outside_vars

\* run_check_task returns; the scheduler thread waits for the next tick
FinishCycle ==
    /\ pc = "notifying"
    /\ npc = "idle"
    /\ idx > Len(results)
    /\ pc' = "waiting"
    /\ first_cycle' = FALSE
    /\ idx' = 0
    /\ results' = <<>>
    /\ notified' = <<>>
    /\ undelivered' = {[u EXCEPT !.old = TRUE] : u \in {v \in undelivered : ~v.old}}
    /\ UNCHANGED previous_states
    /\ UNCHANGED config_vars
    /\ UNCHANGED thread_vars
    /\ UNCHANGED outside_vars
    /\ UNCHANGED notifier_vars

(***************************************************************************)
(* Notifier steps.                                                         *)
(***************************************************************************)
\* what follows a failed attempt of the for loop once any sleep is over
AfterFailedAttempt ==
    IF attempt < LastAttempt(retry_count)
    THEN npc' = "send" /\ attempt' = attempt + 1 /\ ret' = FALSE
    ELSE npc' = "returned" /\ attempt' = attempt /\ ret' = FALSE

\* one _send_request call and what send_notification does with its result
SendRequest ==
    /\ npc = "send"
    /\ \E resp \in Responses(method) :
          /\ resp_log' = Append(resp_log, resp = "ok")
          /\ http_calls' = IF resp = "no_request" THEN http_calls ELSE http_calls + 1
          /\ IF ~Handled(resp)
             THEN /\ pc' = "aborted"
                  /\ UNCHANGED <<npc, attempt, ret>>
             ELSE /\ pc' = pc
                  /\ IF NoRetry(retry_count)
                     THEN npc' = "returned" /\ ret' = RequestResult(resp) /\ attempt' = attempt
                     ELSE IF ReturnsOnSuccess(RequestResult(resp))
                     THEN npc' = "returned" /\ ret' = TRUE /\ attempt' = attempt
                     ELSE IF ShouldSleep(attempt, retry_count)
                     THEN npc' = "sleep" /\ ret' = FALSE /\ attempt' = attempt
                     ELSE AfterFailedAttempt
    /\ UNCHANGED <<check_result, sleeps, payload, slept>>
    /\ UNCHANGED <<previous_states, first_cycle, idx, results, notified>>
    /\ UNCHANGED config_vars
    /\ UNCHANGED thread_vars
    /\ UNCHANGED history_vars
    /\ UNCHANGED outside_vars

\* time.sleep(self.retry_interval) between two attempts
Sleep ==
    /\ npc = "sleep"
    /\ sleeps' = sleeps + 1
    /\ slept' = slept + retry_interval
    /\ AfterFailedAttempt
    /\ UNCHANGED <<check_result, resp_log, http_calls, payload>>
    /\ UNCHANGED runner_vars
    /\ UNCHANGED config_vars
    /\ UNCHANGED thread_vars
    /\ UNCHANGED history_vars
    /\ UNCHANGED outside_vars

Next ==
    \/ Start
    \/ SchedulerTick
    \/ CheckServer
    \/ SkipResult
    \/ NotifyResult
    \/ NotifyReturn
    \/ FinishCycle
    \/ SendRequest
    \/ Sleep

Spec == Init /\ [][Next]_vars

(***************************************************************************)
(* The notifier called directly, as a caller other than run_check_task may *)
(* call it: with any check result, transitioned or not.                    *)
(***************************************************************************)
\* check results a caller can hand to notify_port_status_change: with
\* status_changed true, false, or without the key
DirectResults ==
    { [server |-> servers[1], is_alive |-> a, response_time |-> <<1235>>,
       status_changed |-> c, checked_at |-> "now"] : a \in BOOLEAN, c \in BOOLEAN }
    \cup
    { [server |-> servers[1], is_alive |-> a, response_time |-> <<>>] : a \in BOOLEAN }
    \cup
    { [server |-> servers[1], is_alive |-> a, status_changed |-> TRUE] : a \in BOOLEAN }

\* the notifier does not read the configured list: one list stands for all
InitNotifier ==
    /\ servers = <<[name |-> "web", host |-> "h1", port |-> 80, protocol |-> "tcp"]>>
    /\ retry_count \in RetryCounts
    /\ method \in Methods
    /\ url \in Urls
    /\ retry_interval \in RetryIntervals
    /\ webhook_config = [retry_count |-> retry_count, retry_interval |-> retry_interval]
    /\ previous_states = <<>>
    /\ pc = "direct"
    /\ first_cycle = TRUE
    /\ idx = 0
    /\ results = <<>>
    /\ notified = <<>>
    /\ calls = <<>>
    /\ undelivered = {}
    /\ ThreadInit
    /\ NotifierInit

DirectNotify ==
    /\ pc = "direct"
    /\ npc = "idle"
    /\ \E cr \in DirectResults : EnterNotify(cr)
    /\ UNCHANGED runner_vars
    /\ UNCHANGED config_vars
    /\ UNCHANGED thread_vars
    /\ UNCHANGED history_vars
    /\ UNCHANGED outside_vars

DirectReturn ==
    /\ pc = "direct"
    /\ npc = "returned"
    /\ NotifierReset
    /\ UNCHANGED runner_vars
    /\ UNCHANGED config_vars
    /\ UNCHANGED thread_vars
    /\ UNCHANGED history_vars
    /\ UNCHANGED outside_vars

NextNotifier ==
    \/ DirectNotify
    \/ DirectReturn
    \/ SendRequest
    \/ Sleep

SpecNotifier == InitNotifier /\ [][NextNotifier]_vars

(***************************************************************************)
(* check_server called directly, one call after another, with any server   *)
(* dict: the protocol is not restricted by validate_config here.           *)
(***************************************************************************)
CheckPool ==
    ServerPool \cup
    { [name |-> "web-2", host |-> "h1", port |-> 80, protocol |-> "tcp"],
      [name |-> "ping",  host |-> "h1", port |-> 80, protocol |-> "icmp"] }

\* elapsed wall time of a probe, in microseconds: a coarse clock can read 0
DirectElapsedTimes == {0, 12346}

\* the dict check_server returns for a protocol that is neither tcp nor udp
UnsupportedResult(server) ==
    [server         |-> server,
     is_alive       |-> FALSE,
     response_time  |-> <<>>,
     status_changed |-> FALSE,
     error          |-> <<"unsupported protocol", Lower(server.protocol)>>]

\* one call of check_server: whether it raised, the dict it returned (if it
\* returned), and previous_states after it
check_server(states, server, outcome, elapsed) ==
    IF Lower(server.protocol) \notin {"tcp", "udp"}
    THEN [raised |-> FALSE, result |-> <<UnsupportedResult(server)>>, states |-> states]
    ELSE IF outcome = "fault"
    THEN [raised |-> TRUE, result |-> <<>>, states |-> states]
    ELSE LET probe == ProbeResult(server, outcome, elapsed)
         IN [raised |-> FALSE,
             result |-> <<CheckServerResult(states, server, probe)>>,
             states |-> UpdateStates(states, ServerKey(server), probe.is_alive)]

\* check_server reads neither the configured list nor the notifier: one
\* configuration stands for all
InitChecker ==
    /\ servers = <<[name |-> "web", host |-> "h1", port |-> 80, protocol |-> "tcp"]>>
    /\ retry_count = 0
    /\ method = "POST"
    /\ url \in CycleUrls
    /\ retry_interval \in CycleRetryIntervals
    /\ webhook_config = [retry_count |-> retry_count, retry_interval |-> retry_interval]
    /\ previous_states = <<>>
    /\ pc = "direct_check"
    /\ first_cycle = TRUE
    /\ idx = 0
    /\ results = <<>>
    /\ notified = <<>>
    /\ calls = <<>>
    /\ undelivered = {}
    /\ ThreadInit
    /\ NotifierInit

DirectCheck ==
    /\ pc = "direct_check"
    /\ \E server \in CheckPool :
         \E outcome \in ProbeOutcomes(server), elapsed \in DirectElapsedTimes :
            LET done == check_server(previous_states, server, outcome, elapsed)
                call == [server |-> server, outcome |-> outcome, elapsed |-> elapsed,
                         raised |-> done.raised, result |-> done.result]
            IN /\ previous_states' = done.states
               /\ calls' = IF Len(calls) = 2 THEN <<calls[2], call>> ELSE Append(calls, call)
    /\ UNCHANGED <<pc, first_cycle, idx, results, notified>>
    /\ UNCHANGED config_vars
    /\ UNCHANGED thread_vars
    /\ UNCHANGED history_vars
    /\ UNCHANGED notifier_vars

NextChecker == DirectCheck

SpecChecker == InitChecker /\ [][NextChecker]_vars

(***************************************************************************)
(* The threads of the program: the main thread runs start(), the scheduler *)
(* thread runs run_scheduler, a signal runs signal_handler on the main     *)
(* thread.  A cycle is the frame of run_check_task of the thread that runs *)
(* it; an evaluation reads the memory and later writes it.                 *)
(***************************************************************************)
Threads == {"main", "sched"}

\* start() with the scheduler started before the first cycle
StartProgramSchedulerFirst ==
    <<"schedule_task", "scheduler.start", "run_check_task", "sleep">>

\* the statements of PortGuardian.start, in order
StartProgram ==
    <<"run_check_task", "schedule_task", "scheduler.start", "sleep">>

InitSched ==
    /\ servers = <<[name |-> "web", host |-> "h1", port |-> 80, protocol |-> "tcp"],
                   [name |-> "dns", host |-> "h1", port |-> 53, protocol |-> "udp"]>>
    /\ retry_count = 0
    /\ method = "POST"
    /\ url \in CycleUrls
    /\ retry_interval \in CycleRetryIntervals
    /\ webhook_config = [retry_count |-> retry_count, retry_interval |-> retry_interval]
    /\ previous_states = <<>>
    /\ pc = "threads"
    /\ first_cycle = TRUE
    /\ idx = 0
    /\ results = <<>>
    /\ notified = <<>>
    /\ calls = <<>>
    /\ undelivered = {}
    /\ ThreadInit
    /\ NotifierInit

\* the process is alive, and the thread is not suspended by the signal handler
CanStep(t) ==
    /\ pc = "threads"
    /\ handler # "exited"
    /\ t = "main" => handler = "none"
    /\ t = "sched" => scheduler_thread = "alive"

NewFrame == <<[phase |-> "probe", idx |-> 1, is_alive |-> FALSE, status_changed |-> FALSE]>>

ThreadFrame ==
    /\ UNCHANGED <<pc, first_cycle, idx, results, notified>>
    /\ UNCHANGED config_vars
    /\ UNCHANGED notifier_vars
    /\ UNCHANGED history_vars
    /\ UNCHANGED outside_vars

\* self.run_check_task() called by start()
MainRunCheckTask ==
    /\ CanStep("main")
    /\ StartProgram[main_at] = "run_check_task"
    /\ frames["main"] = <<>>
    /\ frames' = [frames EXCEPT !["main"] = NewFrame]
    /\ UNCHANGED <<main_at, scheduled, due, running, scheduler_thread, sched_at, handler>>
    /\ UNCHANGED previous_states
    /\ ThreadFrame

\* check_server up to the comparison with the remembered state
Evaluate(t) ==
    /\ CanStep(t)
    /\ frames[t] # <<>>
    /\ frames[t][1].phase = "probe"
    /\ \E alive \in BOOLEAN :
          LET f == frames[t][1]
              changed == StatusChanged(previous_states, ServerKey(servers[f.idx]), alive)
          IN frames' = [frames EXCEPT ![t] =
                           <<[f EXCEPT !.phase = "store", !.is_alive = alive,
                                       !.status_changed = changed]>>]
    /\ UNCHANGED <<main_at, scheduled, due, running, scheduler_thread, sched_at, handler>>
    /\ UNCHANGED previous_states
    /\ ThreadFrame

\* check_server from the write of the memory on, and the loop of
\* check_all_servers
Store(t) ==
    /\ CanStep(t)
    /\ frames[t] # <<>>
    /\ frames[t][1].phase = "store"
    /\ LET f == frames[t][1]
       IN /\ previous_states' =
                UpdateStates(previous_states, ServerKey(servers[f.idx]), f.is_alive)
          /\ frames' = [frames EXCEPT ![t] =
                           IF f.idx = Len(servers)
                           THEN <<[f EXCEPT !.phase = "notify"]>>
                           ELSE <<[f EXCEPT !.phase = "probe", !.idx = f.idx + 1]>>]
    /\ UNCHANGED <<main_at, scheduled, due, running, scheduler_thread, sched_at, handler>>
    /\ ThreadFrame

\* the notification loop of run_check_task, and its return to the caller
ReturnFromTask(t) ==
    /\ CanStep(t)
    /\ frames[t] # <<>>
    /\ frames[t][1].phase = "notify"
    /\ frames' = [frames EXCEPT ![t] = <<>>]
    /\ IF t = "main"
       THEN main_at' = main_at + 1 /\ sched_at' = sched_at
       ELSE main_at' = main_at /\ sched_at' = "sleep"
    /\ UNCHANGED <<scheduled, due, running, scheduler_thread, handler>>
    /\ UNCHANGED previous_states
    /\ ThreadFrame

\* self.scheduler.schedule_task(check_interval, self.run_check_task)
MainScheduleTask ==
    /\ CanStep("main")
    /\ StartProgram[main_at] = "schedule_task"
    /\ scheduled' = TRUE
    /\ main_at' = main_at + 1
    /\ UNCHANGED <<frames, due, running, scheduler_thread, sched_at, handler>>
    /\ UNCHANGED previous_states
    /\ ThreadFrame

\* self.scheduler.start(): the thread is created and started
MainSchedulerStart ==
    /\ CanStep("main")
    /\ StartProgram[main_at] = "scheduler.start"
    /\ scheduler_thread' = "alive"
    /\ sched_at' = "set_running"
    /\ main_at' = main_at + 1
    /\ UNCHANGED <<frames, scheduled, due, running, handler>>
    /\ UNCHANGED previous_states
    /\ ThreadFrame

\* the interval of the registered job elapses
IntervalElapses ==
    /\ pc = "threads"
    /\ handler # "exited"
    /\ scheduled
    /\ ~due
    /\ due' = TRUE
    /\ UNCHANGED <<main_at, frames, scheduled, running, scheduler_thread, sched_at, handler>>
    /\ UNCHANGED previous_states
    /\ ThreadFrame

\* run_scheduler: self.running = True
SchedSetRunning ==
    /\ CanStep("sched")
    /\ sched_at = "set_running"
    /\ running' = TRUE
    /\ sched_at' = "test"
    /\ UNCHANGED <<main_at, frames, scheduled, due, scheduler_thread, handler>>
    /\ UNCHANGED previous_states
    /\ ThreadFrame

\* run_scheduler: while self.running
SchedTest ==
    /\ CanStep("sched")
    /\ sched_at = "test"
    /\ IF running
       THEN sched_at' = "run_pending" /\ scheduler_thread' = scheduler_thread
       ELSE sched_at' = "stopped" /\ scheduler_thread' = "finished"
    /\ UNCHANGED <<main_at, frames, scheduled, due, running, handler>>
    /\ UNCHANGED previous_states
    /\ ThreadFrame

\* run_scheduler: schedule.run_pending() calls the job when it is due, on
\* this thread, and returns when the job has returned
SchedRunPending ==
    /\ CanStep("sched")
    /\ sched_at = "run_pending"
    /\ frames["sched"] = <<>>
    /\ IF scheduled /\ due
       THEN /\ frames' = [frames EXCEPT !["sched"] = NewFrame]
            /\ due' = FALSE
            /\ sched_at' = sched_at
       ELSE /\ sched_at' = "sleep"
            /\ UNCHANGED <<frames, due>>
    /\ UNCHANGED <<main_at, scheduled, running, scheduler_thread, handler>>
    /\ UNCHANGED previous_states
    /\ ThreadFrame

\* run_scheduler: time.sleep(1)
SchedSleep ==
    /\ CanStep("sched")
    /\ sched_at = "sleep"
    /\ sched_at' = "test"
    /\ UNCHANGED <<main_at, frames, scheduled, due, running, scheduler_thread, handler>>
    /\ UNCHANGED previous_states
    /\ ThreadFrame

\* SIGINT or SIGTERM arrives: signal_handler starts on the main thread
Signal ==
    /\ pc = "threads"
    /\ handler = "none"
    /\ handler' = "stop"
    /\ UNCHANGED <<main_at, frames, scheduled, due, running, scheduler_thread, sched_at>>
    /\ UNCHANGED previous_states
    /\ ThreadFrame

\* stop(): self.running = False, then the test of self.scheduler_thread
HandlerStop ==
    /\ pc = "threads"
    /\ handler = "stop"
    /\ running' = FALSE
    /\ handler' = IF scheduler_thread # "none" THEN "join" ELSE "exit"
    /\ UNCHANGED <<main_at, frames, scheduled, due, scheduler_thread, sched_at>>
    /\ UNCHANGED previous_states
    /\ ThreadFrame

\* stop(): self.scheduler_thread.join() returns once the thread has finished
HandlerJoin ==
    /\ pc = "threads"
    /\ handler = "join"
    /\ scheduler_thread = "finished"
    /\ handler' = "exit"
    /\ UNCHANGED <<main_at, frames, scheduled, due, running, scheduler_thread, sched_at>>
    /\ UNCHANGED previous_states
    /\ ThreadFrame

\* sys.exit(0): the process ends, its daemon thread with it
HandlerExit ==
    /\ pc = "threads"
    /\ handler = "exit"
    /\ handler' = "exited"
    /\ UNCHANGED <<main_at, frames, scheduled, due, running, scheduler_thread, sched_at>>
    /\ UNCHANGED previous_states
    /\ ThreadFrame

NextSched ==
    \/ MainRunCheckTask
    \/ \E t \in Threads : Evaluate(t)
    \/ \E t \in Threads : Store(t)
    \/ \E t \in Threads : ReturnFromTask(t)
    \/ MainScheduleTask
    \/ MainSchedulerStart
    \/ IntervalElapses
    \/ SchedSetRunning
    \/ SchedTest
    \/ SchedRunPending
    \/ SchedSleep
    \/ Signal
    \/ HandlerStop
    \/ HandlerJoin
    \/ HandlerExit

SpecSched == InitSched /\ [][NextSched]_vars

\* any step of the scheduler thread: run_scheduler and the job it calls
SchedulerThreadStep ==
    \/ SchedSetRunning
    \/ SchedTest
    \/ SchedRunPending
    \/ SchedSleep
    \/ Evaluate("sched")
    \/ Store("sched")
    \/ ReturnFromTask("sched")

\* any step of signal_handler on the main thread
HandlerStep ==
    \/ HandlerStop
    \/ HandlerJoin
    \/ HandlerExit

\* a started thread keeps being scheduled by the interpreter, and a handler
\* that can go on does go on; signals and the main thread are not forced
SpecSchedFair ==
    /\ SpecSched
    /\ WF_vars(SchedulerThreadStep)
    /\ WF_vars(HandlerStep)

(***************************************************************************)
(* The constructor of the notifier, applied to any integer retry settings. *)
(***************************************************************************)
MaxConfig == 5

\* the integers a configuration may hold for a retry setting
ConfigInts == (0 - MaxConfig)..MaxConfig

Max(a, b) == IF a >= b THEN a ELSE b

\* a constructor that lets a zero interval through
ClampRetryIntervalAtZero(configured) == Max(0, configured)

\* self.retry_count = max(0, int(self.retry_count))
ClampRetryCount(configured) == Max(0, configured)

\* self.retry_interval = max(1, int(self.retry_interval))
ClampRetryInterval(configured) == Max(1, configured)

InitConstruct ==
    /\ servers = <<[name |-> "web", host |-> "h1", port |-> 80, protocol |-> "tcp"]>>
    /\ webhook_config \in [retry_count : ConfigInts, retry_interval : ConfigInts]
    /\ retry_count = <<>>
    /\ retry_interval = <<>>
    /\ method = "POST"
    /\ url \in CycleUrls
    /\ previous_states = <<>>
    /\ pc = "unconstructed"
    /\ first_cycle = TRUE
    /\ idx = 0
    /\ results = <<>>
    /\ notified = <<>>
    /\ calls = <<>>
    /\ undelivered = {}
    /\ ThreadInit
    /\ NotifierInit

\* WebhookNotifier.__init__
Construct ==
    /\ pc = "unconstructed"
    /\ retry_count' = ClampRetryCount(webhook_config.retry_count)
    /\ retry_interval' = ClampRetryInterval(webhook_config.retry_interval)
    /\ pc' = "constructed"
    /\ UNCHANGED <<servers, method, url, webhook_config>>
    /\ UNCHANGED <<previous_states, first_cycle, idx, results, notified>>
    /\ UNCHANGED notifier_vars
    /\ UNCHANGED thread_vars
    /\ UNCHANGED history_vars
    /\ UNCHANGED outside_vars

NextConstruct == Construct

SpecConstruct == InitConstruct /\ [][NextConstruct]_vars

(***************************************************************************)
(* Vocabulary of the properties.                                           *)
(***************************************************************************)
\* the identity of an endpoint: host, port and protocol, not its name
Identity(server) == <<server.host, server.port, Lower(server.protocol)>>

DistinctIdentities(list) ==
    \A i, j \in 1..Len(list) : i # j => Identity(list[i]) # Identity(list[j])

\* the outcome carries status_changed and it is true
Transitioned(cr) == "status_changed" \in DOMAIN cr /\ cr.status_changed

\* a notifier call is in progress (or has just returned) for a transitioned outcome
Sent == check_result # <<>> /\ Transitioned(check_result[1])

AllFailed == \A i \in 1..Len(resp_log) : ~resp_log[i]

\* results i and j (i before j) are consecutive evaluations of one identity
ConsecutiveSame(i, j) ==
    /\ i < j
    /\ Identity(results[i].server) = Identity(results[j].server)
    /\ \A k \in (i + 1)..(j - 1) : Identity(results[k].server) # Identity(results[i].server)

\* the latest direct call of check_server
LastCall == calls[Len(calls)]

\* a direct call of check_server that returned
Returned(c) == ~c.raised /\ Len(c.result) = 1

\* the server dicts differ in the name and in nothing else
DifferOnlyInName(s1, s2) ==
    /\ s1.host = s2.host
    /\ s1.port = s2.port
    /\ s1.protocol = s2.protocol
    /\ s1.name # s2.name

\* the loop of run_check_task over the results has ended
NotifyLoopDone == pc = "notifying" /\ npc = "idle" /\ idx > Len(results)

(***************************************************************************)
(* Properties.                                                             *)
(***************************************************************************)

\* C1: an evaluation by check_server reports status_changed = TRUE if and
\* only if, before the call, previous_states held an entry for the
\* endpoint's identity and that entry differed from the new reading; so a
\* first evaluation (no entry) reports FALSE whatever the reading, and an
\* evaluation whose reading equals the stored one reports FALSE.
C1_TransitionIffPriorDiffers ==
    [][ (pc = "checking" /\ pc' \in {"checking", "notifying"}) =>
            LET r == results'[Len(results')]
                k == Identity(r.server)
            IN /\ Len(results') = Len(results) + 1
               /\ r.status_changed <=>
                     (k \in DOMAIN previous_states /\ previous_states[k] # r.is_alive)
      ]_vars

\* a transition is reported for an endpoint of a list without duplicates:
\* the reading differs from the one stored by an earlier cycle
C1_Witness ==
    /\ DistinctIdentities(servers)
    /\ \E i \in 1..Len(results) :
          /\ results[i].status_changed
          /\ \E j \in 1..Len(results) : ~results[j].status_changed

\* C2: after every evaluation the memory entry of the endpoint's identity
\* equals the reading just evaluated (the latest evaluation of an identity in
\* the cycle is what memory holds), and of two consecutive evaluations of one
\* identity the second reports a transition exactly when the readings differ.
C2_MemoryHoldsReading ==
    /\ \A i \in 1..Len(results) :
          (\A j \in (i + 1)..Len(results) :
                Identity(results[j].server) # Identity(results[i].server))
          => /\ Identity(results[i].server) \in DOMAIN previous_states
             /\ previous_states[Identity(results[i].server)] = results[i].is_alive
    /\ \A i, j \in 1..Len(results) :
          ConsecutiveSame(i, j) =>
             (results[j].status_changed <=> (results[i].is_alive # results[j].is_alive))

\* two consecutive evaluations of one identity with different readings: the
\* second reports the transition and memory holds the second reading
C2_Witness ==
    \E i, j \in 1..Len(results) :
        /\ ConsecutiveSame(i, j)
        /\ j = Len(results)
        /\ results[i].is_alive # results[j].is_alive
        /\ results[j].status_changed
        /\ previous_states[Identity(results[j].server)] = results[j].is_alive

\* C3 (as claimed): a delivery whose attempts all fail has made exactly
\* retry_count + 1 attempts when send_notification returns.
C3_RetryCountPlusOneAttempts ==
    (npc = "returned" /\ Sent /\ AllFailed) => Len(resp_log) = retry_count + 1

\* C4: with retry_count = 0 a delivery makes exactly one attempt, never
\* sleeps, and returns the result of that attempt.
C4_NoRetrySingleAttempt ==
    (retry_count = 0 /\ Sent) =>
        /\ sleeps = 0
        /\ npc # "sleep"
        /\ Len(resp_log) <= 1
        /\ npc = "returned" => (Len(resp_log) = 1 /\ ret = resp_log[1])

\* retry_count = 0 and the single attempt has failed
C4_Witness ==
    /\ retry_count = 0
    /\ Sent
    /\ npc = "returned"
    /\ resp_log = <<FALSE>>
    /\ http_calls = 1

\* C5: within one delivery no attempt follows a successful attempt (only the
\* last attempt made can be a success), and send_notification returns TRUE
\* exactly when its last attempt succeeded.
C5_StopOnFirstSuccess ==
    /\ \A i \in 1..(Len(resp_log) - 1) : ~resp_log[i]
    /\ (npc = "returned" /\ Sent) =>
          (ret <=> (Len(resp_log) > 0 /\ resp_log[Len(resp_log)]))

\* a delivery that succeeded on a retry
C5_Witness ==
    /\ npc = "returned"
    /\ Sent
    /\ ret
    /\ Len(resp_log) >= 2

\* C6: notify_port_status_change on an outcome whose status_changed is false
\* or absent returns TRUE at once: no HTTP call, no attempt, no sleep.
C6_NonTransitionedIsNoOp ==
    (check_result # <<>> /\ ~Transitioned(check_result[1])) =>
        /\ npc = "returned"
        /\ ret = TRUE
        /\ http_calls = 0
        /\ sleeps = 0
        /\ resp_log = <<>>

\* the notifier was called with an outcome that has no status_changed key
C6_Witness ==
    /\ check_result # <<>>
    /\ "status_changed" \notin DOMAIN check_result[1]
    /\ npc = "returned"

\* C7: no failed attempt leaves the notifier as an exception (the cycle is
\* never aborted from inside a delivery), a delivery makes a bounded number
\* of attempts, a delivery whose attempts all failed returns FALSE, and when
\* the notifier returns, whatever it returns, run_check_task goes on to the
\* next result of the same cycle.
C7_FailuresContained ==
    /\ [](pc = "aborted" => npc = "idle")
    /\ [](Len(resp_log) <= retry_count + 1 /\ sleeps <= retry_count)
    /\ []((npc = "returned" /\ Sent /\ AllFailed) => ret = FALSE)
    /\ [][ (npc = "returned" /\ pc = "notifying") =>
              (pc' = "notifying" /\ idx' = idx + 1 /\ results' = results) ]_vars

\* a delivery has failed on all its attempts, after a retry, and a later
\* transitioned outcome of the cycle is still to be notified
C7_Witness ==
    /\ pc = "notifying"
    /\ npc = "returned"
    /\ Sent
    /\ AllFailed
    /\ Len(resp_log) >= 2
    /\ ~ret
    /\ \E j \in (idx + 1)..Len(results) : results[j].status_changed

\* C8 (as claimed): a fault in the probe of one endpoint leaves the outcomes
\* of the other N-1 endpoints of the cycle.
C8_FaultIsolated ==
    pc = "aborted" => Len(results) >= Len(servers) - 1

\* C9 (as claimed): every cycle, however it ends, has produced one outcome
\* per configured endpoint in the configured order, no notification is
\* attempted before all of them exist, and the notifier has been called once
\* for each transitioned outcome and never for another.
C9_OrderedThenNotifiedOnce ==
    /\ (pc = "notifying" \/ pc = "aborted") =>
          /\ Len(results) = Len(servers)
          /\ \A i \in 1..Len(results) : results[i].server = servers[i]
    /\ npc # "idle" => pc = "notifying"
    /\ \A i \in 1..Len(notified) :
          /\ notified[i] <= 1
          /\ notified[i] = 1 => results[i].status_changed
    /\ NotifyLoopDone =>
          \A i \in 1..Len(results) :
              notified[i] = (IF results[i].status_changed THEN 1 ELSE 0)

\* C10 (as claimed): in the cycle run by start(), whatever the configured
\* list, no outcome reports a transition and the notifier is not called.
C10_FirstCycleNeverTransitions ==
    first_cycle =>
        /\ \A i \in 1..Len(results) : ~results[i].status_changed
        /\ npc = "idle"

\* C10 (amended): in the cycle run by start(), when the configured endpoints
\* have pairwise distinct identities, no outcome reports a transition and
\* the notifier is not called.
C10_FirstCycleDistinctIdentities ==
    (first_cycle /\ DistinctIdentities(servers)) =>
        /\ \A i \in 1..Len(results) : ~results[i].status_changed
        /\ npc = "idle"
        /\ http_calls = 0

\* the first cycle has evaluated two endpoints of distinct identities with
\* different readings
C10_Witness ==
    /\ first_cycle
    /\ DistinctIdentities(servers)
    /\ pc = "notifying"
    /\ Len(results) >= 2
    /\ results[1].is_alive # results[2].is_alive

\* C11: memory is keyed by host, port and protocol, not by name: when two
\* endpoints that differ only in name are evaluated one after the other, the
\* second is compared against the reading the first stored (it reports a
\* transition exactly when the two readings differ) and overwrites that entry.
C11_NameNotInIdentity ==
    (/\ Len(calls) = 2
     /\ Returned(calls[1])
     /\ Returned(calls[2])
     /\ Lower(calls[1].server.protocol) \in {"tcp", "udp"}
     /\ DifferOnlyInName(calls[1].server, calls[2].server))
    => /\ calls[2].result[1].status_changed <=>
             (calls[1].result[1].is_alive # calls[2].result[1].is_alive)
       /\ Identity(calls[1].server) \in DOMAIN previous_states
       /\ previous_states[Identity(calls[1].server)] = calls[2].result[1].is_alive

\* "web" read alive, then "web-2" (same host, port, protocol) read unreachable:
\* the second evaluation reports the transition
C11_Witness ==
    /\ Len(calls) = 2
    /\ Returned(calls[1])
    /\ Returned(calls[2])
    /\ DifferOnlyInName(calls[1].server, calls[2].server)
    /\ calls[1].result[1].is_alive
    /\ ~calls[2].result[1].is_alive
    /\ calls[2].result[1].status_changed

\* C12 (as claimed): a call of check_server with an unsupported protocol
\* returns an outcome with is_alive = FALSE and an error, with the fields the
\* other outcomes carry, and leaves a memory entry FALSE for the identity.
C12_UnsupportedLikeFailedProbe ==
    (/\ Len(calls) >= 1
     /\ Lower(LastCall.server.protocol) \notin {"tcp", "udp"})
    => /\ Returned(LastCall)
       /\ ~LastCall.result[1].is_alive
       /\ "error" \in DOMAIN LastCall.result[1]
       /\ "checked_at" \in DOMAIN LastCall.result[1]
       /\ Identity(LastCall.server) \in DOMAIN previous_states
       /\ ~previous_states[Identity(LastCall.server)]

\* C13: a UDP probe whose send succeeded and whose read got a reply or timed
\* out is reported alive; a UDP probe is reported unreachable only when the
\* send or the read raised a socket error.
C13_UdpTimeoutIsAlive ==
    (/\ Len(calls) >= 1
     /\ Lower(LastCall.server.protocol) = "udp"
     /\ Returned(LastCall))
    => /\ LastCall.outcome \in {"reply", "timeout"} => LastCall.result[1].is_alive
       /\ ~LastCall.result[1].is_alive => LastCall.outcome \in {"send_error", "recv_error"}

\* a UDP probe timed out on the read and was stored as alive
C13_Witness ==
    /\ Len(calls) >= 1
    /\ Lower(LastCall.server.protocol) = "udp"
    /\ LastCall.outcome = "timeout"
    /\ Returned(LastCall)
    /\ LastCall.result[1].is_alive
    /\ previous_states[Identity(LastCall.server)]

\* C14 (as claimed, the failure half): every TCP probe that did not connect
\* gives is_alive = FALSE with no latency and an error in the outcome, so no
\* outcome has is_alive = FALSE together with a latency.
C14_TcpFailureHasNoLatency ==
    (/\ Len(calls) >= 1
     /\ Lower(LastCall.server.protocol) = "tcp"
     /\ Returned(LastCall)
     /\ LastCall.outcome # "connected")
    => /\ ~LastCall.result[1].is_alive
       /\ LastCall.result[1].response_time = <<>>
       /\ "error" \in DOMAIN LastCall.result[1]

\* C15: the message handed to send_notification has exactly one of three
\* shapes, chosen by the URL alone: a URL with feishu.cn or larksuite.com in
\* it gives {msg_type, content: {text}} (also when dingtalk.com is in it
\* too), another URL with dingtalk.com in it gives {msgtype, text: {content}},
\* every other URL gives the flat shape with status, host, port, protocol,
\* response_time_ms and checked_at; and every transitioned outcome gets a
\* message, whatever the URL.
C15_ShapeByUrl ==
    /\ (Sent /\ npc # "idle") => payload # <<>>
    /\ payload # <<>> =>
          LET msg == payload[1]
              provider_a == \E i \in 1..Len(url) : url[i] \in {"feishu.cn", "larksuite.com"}
              provider_b == \E i \in 1..Len(url) : url[i] = "dingtalk.com"
          IN IF provider_a
             THEN /\ DOMAIN msg = {"msg_type", "content"}
                  /\ DOMAIN msg.content = {"text"}
             ELSE IF provider_b
             THEN /\ DOMAIN msg = {"msgtype", "text"}
                  /\ DOMAIN msg.text = {"content"}
             ELSE /\ {"status", "host", "port", "protocol",
                      "response_time_ms", "checked_at"} \subseteq DOMAIN msg
                  /\ DOMAIN msg \cap {"content", "text", "msgtype"} = {}

\* a larksuite.com URL got the nested shape, for an outcome that carries
\* neither response_time nor checked_at
C15_Witness ==
    /\ payload # <<>>
    /\ \E i \in 1..Len(url) : url[i] = "larksuite.com"
    /\ "content" \in DOMAIN payload[1]
    /\ "checked_at" \notin DOMAIN check_result[1]

\* C16 (as claimed): whatever the configured method (GET, POST, PUT), every
\* delivery attempt issues one HTTP request.
C16_OneRequestPerAttempt ==
    Sent => http_calls = Len(resp_log)

\* C18: within one delivery, a sleep follows a failed attempt exactly when
\* another attempt follows it: no sleep before the first attempt, none after
\* a success, none after the last failed attempt; so when the delivery
\* returns the number of sleeps is the number of attempts minus one, and each
\* sleep lasts retry_interval seconds.
C18_SleepsBetweenAttempts ==
    Sent =>
        /\ npc = "send" => sleeps = Len(resp_log)
        /\ npc = "sleep" => (sleeps = Len(resp_log) - 1 /\ ~resp_log[Len(resp_log)])
        /\ npc = "returned" => sleeps = Len(resp_log) - 1
        /\ slept = sleeps * retry_interval

\* a delivery with one retry, both attempts failed: one sleep of 3 seconds
C18_Witness ==
    /\ Sent
    /\ npc = "returned"
    /\ Len(resp_log) = 2
    /\ AllFailed
    /\ sleeps = 1
    /\ retry_interval = 3
    /\ slept = 3

\* C19: a step changes at most the memory entry of the identity of the
\* endpoint being evaluated: every other entry keeps its value, a new entry
\* is the evaluated endpoint's, and no step removes an entry.
C19_OnlyOwnEntryChanges ==
    [][ /\ DOMAIN previous_states \subseteq DOMAIN previous_states'
        /\ \A k \in DOMAIN previous_states' :
              (k \notin DOMAIN previous_states \/ previous_states'[k] # previous_states[k])
                 => (pc = "checking" /\ idx <= Len(servers) /\ k = Identity(servers[idx])) ]_vars

\* in a later cycle the first endpoint's entry has just been rewritten with a
\* changed reading while the entry of another identity is still in memory
C19_Witness ==
    /\ ~first_cycle
    /\ pc = "checking"
    /\ idx = 2
    /\ Len(results) = 1
    /\ results[1].status_changed
    /\ Identity(servers[2]) # Identity(servers[1])
    /\ Identity(servers[2]) \in DOMAIN previous_states

\* the first evaluation, in the cycle in progress, of the identity of results[i]
FirstEvaluation(i) ==
    \A j \in 1..(i - 1) : Identity(results[j].server) # Identity(results[i].server)

\* the transitions of the previous cycle whose delivery failed on every attempt
\* and whose reading was the last one of that cycle
FailedLastCycle == {u \in undelivered : u.old}

\* C20: the notification phase leaves liveness memory as it is, and a failed
\* delivery changes nothing later: when the delivery of a transition failed on
\* all attempts and the next cycle reads the same state for that identity, the
\* outcome has status_changed false and the notifier is not called for it.
C20_DeliveryHasNoEffect ==
    /\ [][ (pc = "notifying" \/ npc # "idle") => previous_states' = previous_states ]_vars
    /\ [](\A i \in 1..Len(results) :
            \A u \in FailedLastCycle :
               (/\ u.key = Identity(results[i].server)
                /\ u.reading = results[i].is_alive
                /\ FirstEvaluation(i))
               => /\ ~results[i].status_changed
                  /\ notified[i] = 0
                  /\ (pc = "notifying" /\ idx = i) => npc = "idle")

\* the cycle after a failed delivery read the same state again, and the
\* notification loop has passed that result over
C20_Witness ==
    /\ pc = "notifying"
    /\ \E i \in 1..Len(results) :
          /\ idx > i
          /\ FirstEvaluation(i)
          /\ notified[i] = 0
          /\ \E u \in FailedLastCycle :
                u.key = Identity(results[i].server) /\ u.reading = results[i].is_alive

\* the thread is inside a monitoring cycle
InCycle(t) == frames[t] # <<>>

\* the thread is between the read and the write of the memory entry of the
\* identity k
Evaluating(t, k) ==
    /\ InCycle(t)
    /\ frames[t][1].phase = "store"
    /\ Identity(servers[frames[t][1].idx]) = k

\* C17: no two monitoring cycles are in progress at the same time: while the
\* initial cycle runs the scheduler thread has not been started, the
\* scheduler thread is inside a cycle only during run_pending, and no two
\* threads are ever inside an evaluation of the same identity.
C17_CyclesNeverOverlap ==
    /\ ~(InCycle("main") /\ InCycle("sched"))
    /\ InCycle("main") => (scheduler_thread = "none" /\ sched_at = "not_started")
    /\ InCycle("sched") => sched_at = "run_pending"
    /\ \A k \in {Identity(servers[i]) : i \in 1..Len(servers)} :
          ~(Evaluating("main", k) /\ Evaluating("sched", k))

\* the scheduler thread is inside an evaluation of a scheduled cycle, after
\* the initial cycle has filled the memory and the main thread went to sleep
C17_Witness ==
    /\ InCycle("sched")
    /\ frames["sched"][1].phase = "store"
    /\ frames["sched"][1].idx = 2
    /\ ~InCycle("main")
    /\ DOMAIN previous_states = {Identity(servers[i]) : i \in 1..Len(servers)}
    /\ handler = "none"

\* C21 (as claimed): once stop() is called, whatever the interleaving with
\* start() and the scheduler thread, the scheduler thread leaves its loop and
\* stop() returns, so the handler goes on to end the process.
C21_StopReturns ==
    (handler = "stop") ~> (handler = "exited")

\* C22: whatever integers the configuration holds for retry_count and
\* retry_interval, negative and zero included, the constructed notifier has
\* retry_count >= 0 and retry_interval >= 1, and each equals the configured
\* value when that value already meets its floor.
C22_RetrySettingsClamped ==
    pc = "constructed" =>
        /\ retry_count >= 0
        /\ retry_interval >= 1
        /\ webhook_config.retry_count >= 0 => retry_count = webhook_config.retry_count
        /\ webhook_config.retry_interval >= 1 => retry_interval = webhook_config.retry_interval

\* a notifier constructed from a negative retry_count and a zero
\* retry_interval holds the two floors
C22_Witness ==
    /\ pc = "constructed"
    /\ webhook_config.retry_count < 0
    /\ webhook_config.retry_interval = 0
    /\ retry_count = 0
    /\ retry_interval = 1

====
